---- MODULE Spec2Model ----
(***************************************************************************)
(* A model of the pretty printer of symflower/pretty (formatter.go).        *)
(*                                                                         *)
(* printValue is a recursive descent over reflect.Values.  The model keeps  *)
(* the Go call stack explicitly (one frame per printValue invocation, with  *)
(* the position inside its loop), the visited map shared by all printers of *)
(* one Format call, and the stream of writes made to the printer's writer.  *)
(* The writes are recorded before the tabwriter / indent writer (external   *)
(* libraries) turn tabs into aligned columns.                               *)
(*                                                                         *)
(* Values live in a heap of storage locations; a reflect.Value is a         *)
(* location plus the CanAddr flag reflect derives from the way the value    *)
(* was reached.  The types of the model's universe expose no StringGo       *)
(* method, so the hook at formatter.go:174-184 never fires, and the switch  *)
(* ConvertErrorStringObject keeps its default (false).                      *)
(***************************************************************************)
EXTENDS Integers, Sequences, FiniteSets, TLC

VARIABLES
    heap,      \* the object graph handed to Formatter: location -> object
    root,      \* the location of formatter.v (0: the invalid Value of nil)
    lazy,      \* formatter.lazy / printer.lazy
    status,    \* "init", "running", "done", "overflow" (goroutine stack exhausted)
    stack,     \* the printValue invocations in progress, innermost last
    visited,   \* printer.visited: <<address, type>> -> depth
    out,       \* the writes made so far, one string per write call
    query,     \* the reflect.Type the layout planner is asked about
    answer     \* what the planner answered ("none": not asked yet)

vars == <<heap, root, lazy, status, stack, visited, out, query, answer>>

---------------------------------------------------------------------------
(* Bounds of the model and constants of the program *)

\* formatter.go:246, the depth a revisit must exceed to count as a cycle
CycleThreshold == 40
\* frames the goroutine stack holds before the runtime aborts the program
StackLimit == 100
\* longest pointer cycle among the rendered graphs
MaxCycle == 3
\* longest chain of records above a shared record
MaxChain == 42

---------------------------------------------------------------------------
(* reflect.Type descriptors *)

Prim(k) == [kind |-> k, name |-> k]
IntT == Prim("int")
UintT == Prim("uint")
Uint8T == Prim("uint8")
StringT == Prim("string")
BoolT == Prim("bool")
IfaceT == [kind |-> "interface", name |-> "interface {}"]
FuncT == [kind |-> "func", name |-> "func(int)"]
UPtrT == [kind |-> "unsafeptr", name |-> "unsafe.Pointer"]
PtrT(e) == [kind |-> "ptr", elem |-> e]
SliceT(e) == [kind |-> "slice", elem |-> e]
ArrayT(e) == [kind |-> "array", elem |-> e]
ChanT(e) == [kind |-> "chan", elem |-> e]
MapT(k, e) == [kind |-> "map", key |-> k, elem |-> e]
PrettyPath == "github.com/symflower/pretty"
MetricsPath == "gitlab.nethead.at/symflower/symflower/model/metrics"
StructIn(path, pkg, n) == [kind |-> "struct", path |-> path, pkg |-> pkg, name |-> n]
StructT(n) == StructIn(PrettyPath, "pretty", n)

\* the types whose children the layout planner is asked about
ChildTypes ==
    <<IntT, Uint8T, StringT, BoolT, IfaceT, FuncT, UPtrT, ChanT(IntT),
      PtrT(IntT), SliceT(IntT), SliceT(SliceT(IntT)), ArrayT(IntT),
      MapT(IntT, IntT), StructT("T")>>

\* generated record types P<i>_<j> with the two fields ChildTypes[i], ChildTypes[j]
PairName(i, j) == "P" \o ToString(i) \o "_" \o ToString(j)
PairIdx == {<<i, j>> : i \in 1..Len(ChildTypes), j \in 1..Len(ChildTypes)}

F(n, t) == [name |-> n, type |-> t]

\* the struct declarations of the test file, by type name
DeclaredFields(n) ==
    CASE n = "T" -> <<F("x", IntT), F("y", IntT)>>
      [] n = "SA" -> <<F("t", PtrT(StructT("T"))), F("v", StructT("T"))>>
      [] n = "LongStructTypeName" ->
            <<F("longFieldName", IfaceT), F("otherLongFieldName", IfaceT)>>
      [] n = "A" -> <<F("A", PtrT(StructT("A")))>>
      [] n = "R" -> <<F("i", IntT), F("R", PtrT(StructT("R")))>>
      [] n = "I" -> <<F("i", IntT), F("R", IfaceT)>>
      [] n = "TestStringer" -> <<F("ordinal", IntT)>>
      [] n = "W" -> <<F("a", PtrT(StructT("T"))), F("next", PtrT(StructT("W")))>>
      [] n = "S" -> <<F("s", SliceT(StructT("S")))>>
      [] n = "N" -> <<F("self", PtrT(StructT("N"))), F("m", MapT(StringT, IfaceT))>>
      [] n = "H" -> <<F("f", FuncT), F("p", UPtrT)>>
      [] n = "Symbol" -> <<F("id", IntT)>>
      [] OTHER ->
            LET ij == CHOOSE p \in PairIdx : PairName(p[1], p[2]) = n
            IN  <<F("a", ChildTypes[ij[1]]), F("b", ChildTypes[ij[2]])>>

Fields(t) == DeclaredFields(t.name)
NumField(t) == Len(Fields(t))

RECURSIVE TypeString(_)
TypeString(t) ==
    CASE t.kind = "ptr" -> "*" \o TypeString(t.elem)
      [] t.kind = "slice" -> "[]" \o TypeString(t.elem)
      [] t.kind = "chan" -> "chan " \o TypeString(t.elem)
      [] t.kind = "map" -> "map[" \o TypeString(t.key) \o "]" \o TypeString(t.elem)
      [] t.kind = "struct" -> t.pkg \o "." \o t.name
      [] OTHER -> t.name

PkgPath(t) == IF t.kind = "struct" THEN t.path ELSE ""
TypeName(t) == IF t.kind \in {"ptr", "slice", "array", "chan", "map"} THEN "" ELSE t.name

---------------------------------------------------------------------------
(* Layout planner *)

canExpand_NoSequences(t) == t.kind \in {"map", "struct", "interface", "ptr"}

canExpand(t) == t.kind \in {"map", "struct", "interface", "array", "slice", "ptr"}

neverInlinedTypeNames == {MetricsPath \o ".Symbol"}

canInline_SlicesInline(t) ==
    IF (PkgPath(t) \o "." \o TypeName(t)) \in neverInlinedTypeNames THEN FALSE
    ELSE CASE t.kind = "map" -> ~canExpand(t.elem)
           [] t.kind = "struct" -> \A i \in 1..NumField(t) : ~canExpand(Fields(t)[i].type)
           [] t.kind \in {"array", "slice"} -> TRUE
           [] t.kind \in {"interface", "ptr", "chan", "func", "unsafeptr"} -> FALSE
           [] OTHER -> TRUE

canInline(t) ==
    IF (PkgPath(t) \o "." \o TypeName(t)) \in neverInlinedTypeNames THEN FALSE
    ELSE CASE t.kind = "map" -> ~canExpand(t.elem)
           [] t.kind = "struct" -> \A i \in 1..NumField(t) : ~canExpand(Fields(t)[i].type)
           [] t.kind = "interface" -> FALSE
           [] t.kind \in {"array", "slice"} -> ~canExpand(t.elem)
           [] t.kind = "ptr" -> FALSE
           [] t.kind \in {"chan", "func", "unsafeptr"} -> FALSE
           [] OTHER -> TRUE

labelType(t) == t.kind \in {"array", "interface", "map", "slice", "struct"}

---------------------------------------------------------------------------
(* Text: Go strings are byte sequences; the writer receives TLA+ strings *)

Digits == <<"0", "1", "2", "3", "4", "5", "6", "7", "8", "9", "a", "b", "c", "d", "e", "f">>

\* the characters 0x20..0x7e, in code order (0x60, which a TLA+ string cannot
\* hold, stands as \x60; no text of the model contains it)
Printable ==
    <<
      " ", "!", "\"", "#", "$", "%", "&", "'", "(", ")", "*", "+",
      ",", "-", ".", "/", "0", "1", "2", "3", "4", "5", "6", "7",
      "8", "9", ":", ";", "<", "=", ">", "?", "@", "A", "B", "C",
      "D", "E", "F", "G", "H", "I", "J", "K", "L", "M", "N", "O",
      "P", "Q", "R", "S", "T", "U", "V", "W", "X", "Y", "Z", "[",
      "\\", "]", "^", "_", "\\x60", "a", "b", "c", "d", "e", "f", "g",
      "h", "i", "j", "k", "l", "m", "n", "o", "p", "q", "r", "s",
      "t", "u", "v", "w", "x", "y", "z", "{", "|", "}", "~"
    >>

RECURSIVE Decimal(_)
\* fmt's %d / %#v of a signed integer, strconv.Itoa
Decimal(n) ==
    IF n < 0 THEN "-" \o Decimal(-n)
    ELSE IF n < 10 THEN Digits[n + 1]
    ELSE Decimal(n \div 10) \o Digits[(n % 10) + 1]

RECURSIVE HexDigits(_)
HexDigits(n) ==
    IF n < 16 THEN Digits[n + 1] ELSE HexDigits(n \div 16) \o Digits[(n % 16) + 1]

\* fmt's %#v of an unsigned integer or uintptr
GoUnsigned(n) == "0x" \o HexDigits(n)

RECURSIVE ItoaBytes(_)
\* strconv.Itoa as the bytes of the result
ItoaBytes(n) ==
    IF n < 0 THEN <<45>> \o ItoaBytes(-n)
    ELSE IF n < 10 THEN <<48 + n>>
    ELSE ItoaBytes(n \div 10) \o <<48 + (n % 10)>>

Cont(b) == b >= 128 /\ b <= 191

RECURSIVE utf8Valid(_)
\* unicode/utf8.Valid: the well-formed byte sequences of RFC 3629
utf8Valid(b) ==
    IF Len(b) = 0 THEN TRUE
    ELSE LET c == b[1]
             n == Len(b)
             rest(k) == SubSeq(b, k + 1, n)
         IN  CASE c < 128 -> utf8Valid(rest(1))
               [] c >= 194 /\ c <= 223 ->
                     n >= 2 /\ Cont(b[2]) /\ utf8Valid(rest(2))
               [] c >= 224 /\ c <= 239 ->
                     /\ n >= 3
                     /\ b[2] >= (IF c = 224 THEN 160 ELSE 128)
                     /\ b[2] <= (IF c = 237 THEN 159 ELSE 191)
                     /\ Cont(b[3])
                     /\ utf8Valid(rest(3))
               [] c >= 240 /\ c <= 244 ->
                     /\ n >= 4
                     /\ b[2] >= (IF c = 240 THEN 144 ELSE 128)
                     /\ b[2] <= (IF c = 244 THEN 143 ELSE 191)
                     /\ Cont(b[3])
                     /\ Cont(b[4])
                     /\ utf8Valid(rest(4))
               [] OTHER -> FALSE

\* one byte of strconv.Quote's output; the model's texts are ASCII or invalid bytes
QuoteByte(c) ==
    CASE c = 34 -> "\\\""
      [] c = 92 -> "\\\\"
      [] c = 7 -> "\\a"
      [] c = 8 -> "\\b"
      [] c = 12 -> "\\f"
      [] c = 10 -> "\\n"
      [] c = 13 -> "\\r"
      [] c = 9 -> "\\t"
      [] c = 11 -> "\\v"
      [] c >= 32 /\ c <= 126 -> Printable[c - 31]
      [] OTHER -> "\\x" \o Digits[(c \div 16) + 1] \o Digits[(c % 16) + 1]

RECURSIVE QuoteBody(_)
QuoteBody(b) == IF Len(b) = 0 THEN "" ELSE QuoteByte(b[1]) \o QuoteBody(Tail(b))

\* strconv.Quote
Quote(b) == "\"" \o QuoteBody(b) \o "\""

RECURSIVE LexLess(_, _)
\* Go's < on strings: bytewise lexicographic
LexLess(a, b) ==
    IF Len(b) = 0 THEN FALSE
    ELSE IF Len(a) = 0 THEN TRUE
    ELSE IF a[1] # b[1] THEN a[1] < b[1]
    ELSE LexLess(Tail(a), Tail(b))

RECURSIVE Concat(_)
\* the text a sequence of writes amounts to
Concat(ws) == IF Len(ws) = 0 THEN "" ELSE ws[1] \o Concat(Tail(ws))

---------------------------------------------------------------------------
(* Values: the heap of storage locations *)

Obj(t, val, str, kids, isnil) ==
    [type |-> t, val |-> val, str |-> str, kids |-> kids, isnil |-> isnil]
OInt(t, n) == Obj(t, n, <<>>, <<>>, FALSE)
OStr(b) == Obj(StringT, 0, b, <<>>, FALSE)
OStruct(t, kids) == Obj(t, 0, <<>>, kids, FALSE)
\* a pointer or an interface holds location target; 0 is nil
ORef(t, target) ==
    Obj(t, 0, <<>>, IF target = 0 THEN <<>> ELSE <<target>>, target = 0)
OSlice(t, kids) == Obj(t, 0, <<>>, kids, FALSE)
ONilSlice(t) == Obj(t, 0, <<>>, <<>>, TRUE)
\* the kids of a map are key1, value1, key2, value2, ...
OMap(t, kids) == Obj(t, 0, <<>>, kids, FALSE)
ONilMap(t) == Obj(t, 0, <<>>, <<>>, TRUE)
OFunc == Obj(FuncT, 0, <<>>, <<>>, FALSE)

Graph(h, r, lz) == [heap |-> h, root |-> r, lazy |-> lz]

TT == StructT("T")
AT == StructT("A")
RT == StructT("R")
IT == StructT("I")
WT == StructT("W")
ST == StructT("S")
NT == StructT("N")
SAT == StructT("SA")
LongT == StructT("LongStructTypeName")
StringerT == StructT("TestStringer")
SymbolT == StructIn(MetricsPath, "metrics", "Symbol")

\* T{x, y} at location b (its fields at b+1, b+2)
TAt(b, x, y) == <<OStruct(TT, <<b + 1, b + 2>>), OInt(IntT, x), OInt(IntT, y)>>

\* TestCycle: v := &A{}; v.A = v
SelfA == <<ORef(PtrT(AT), 2), OStruct(AT, <<3>>), ORef(PtrT(AT), 2)>>

\* TestCycle: p := &A{}; []*A{p, p}
SharedSeq ==
    <<OSlice(SliceT(PtrT(AT)), <<2, 3>>), ORef(PtrT(AT), 4), ORef(PtrT(AT), 4),
      OStruct(AT, <<5>>), ORef(PtrT(AT), 0)>>

\* TestCycle: a ring of L records R{i, *R}, entered through a pointer
RCycle(L) ==
    [k \in 1..(3 * L + 1) |->
        IF k = 1 THEN ORef(PtrT(RT), 2)
        ELSE LET j == (k + 1) \div 3
                 r == (k + 1) % 3
             IN  CASE r = 0 -> OStruct(RT, <<k + 1, k + 2>>)
                   [] r = 1 -> OInt(IntT, j)
                   [] r = 2 -> ORef(PtrT(RT), 3 * ((j % L) + 1) - 1)]

\* TestCycle: a ring of L records I{i, R interface{}} whose R holds a *I
ICycle(L) ==
    [k \in 1..(4 * L + 1) |->
        IF k = 1 THEN ORef(PtrT(IT), 2)
        ELSE LET j == (k + 2) \div 4
                 r == (k + 2) % 4
             IN  CASE r = 0 -> OStruct(IT, <<k + 1, k + 2>>)
                   [] r = 1 -> OInt(IntT, j)
                   [] r = 2 -> ORef(IfaceT, k + 1)
                   [] r = 3 -> ORef(PtrT(IT), 4 * ((j % L) + 1) - 2)]

\* an acyclic chain of K records W{a *T, next *W}; the last two share one T
Chain(K) ==
    [k \in 1..(3 * K + 4) |->
        IF k = 1 THEN ORef(PtrT(WT), 2)
        ELSE IF k > 3 * K + 1 THEN TAt(3 * K + 2, 1, 2)[k - (3 * K + 1)]
        ELSE LET j == (k + 1) \div 3
                 r == (k + 1) % 3
             IN  CASE r = 0 -> OStruct(WT, <<k + 1, k + 2>>)
                   [] r = 1 -> ORef(PtrT(TT), IF j >= K - 1 THEN 3 * K + 2 ELSE 0)
                   [] r = 2 -> ORef(PtrT(WT), IF j < K THEN 3 * (j + 1) - 1 ELSE 0)]

MapSI == MapT(StringT, IfaceT)

\* m := map[string]interface{}{}; m["k"] = m
MapSelf == <<OMap(MapSI, <<2, 3>>), OStr(<<107>>), ORef(IfaceT, 1)>>

\* x := make([]S, 1); x[0].s = x
SliceSelf == <<OSlice(SliceT(ST), <<2>>), OStruct(ST, <<3>>), OSlice(SliceT(ST), <<2>>)>>

\* n := &N{m: map[string]interface{}{}}; n.self = n; n.m["k"] = n.m
Mixed ==
    <<ORef(PtrT(NT), 2), OStruct(NT, <<3, 4>>), ORef(PtrT(NT), 2),
      OMap(MapSI, <<5, 6>>), OStr(<<107>>), ORef(IfaceT, 4)>>

MapII == MapT(IntT, IntT)
\* map[int]int{1: 1, ..., n: n}
MapInts(n) ==
    <<OMap(MapII, [k \in 1..(2 * n) |-> k + 1])>>
        \o [k \in 1..(2 * n) |-> OInt(IntT, (k + 1) \div 2)]

\* map[string]int{"a": 1, "b": 2}
MapStrings ==
    <<OMap(MapT(StringT, IntT), <<2, 3, 4, 5>>),
      OStr(<<97>>), OInt(IntT, 1), OStr(<<98>>), OInt(IntT, 2)>>

\* map[*TestStringer]int{&TestStringer{1}: 1, &TestStringer{2}: 2}
MapStringers ==
    <<OMap(MapT(PtrT(StringerT), IntT), <<2, 3, 4, 5>>),
      ORef(PtrT(StringerT), 6), OInt(IntT, 1), ORef(PtrT(StringerT), 8), OInt(IntT, 2),
      OStruct(StringerT, <<7>>), OInt(IntT, 1), OStruct(StringerT, <<9>>), OInt(IntT, 2)>>

\* gosyntax: map[int][]byte{1: {}}
MapBytes ==
    <<OMap(MapT(IntT, SliceT(Uint8T)), <<2, 3>>), OInt(IntT, 1), OSlice(SliceT(Uint8T), <<>>)>>

\* gosyntax: map[int]T{1: {}}
MapOfT == <<OMap(MapT(IntT, TT), <<2, 3>>), OInt(IntT, 1)>> \o TAt(3, 0, 0)

\* [][]int{nil, {1, 2}}
SliceOfSlices ==
    <<OSlice(SliceT(SliceT(IntT)), <<2, 3>>), ONilSlice(SliceT(IntT)),
      OSlice(SliceT(IntT), <<4, 5>>), OInt(IntT, 1), OInt(IntT, 2)>>

\* the byte contents rendered: gosyntax's {1, 2, 3} and {}, "a", and two ill-formed texts
ByteTexts == {<<1, 2, 3>>, <<>>, <<97>>, <<255>>, <<195, 40>>}

\* []byte(b)
Bytes(b) ==
    <<OSlice(SliceT(Uint8T), [k \in 1..Len(b) |-> k + 1])>>
        \o [k \in 1..Len(b) |-> OInt(Uint8T, b[k])]

\* gosyntax: []interface{}{LongStructTypeName{nil, nil}, []byte{1, 2, 3}, T{3, 4}, nil}
Ifaces ==
    <<OSlice(SliceT(IfaceT), <<2, 3, 4, 5>>),
      ORef(IfaceT, 6), ORef(IfaceT, 9), ORef(IfaceT, 13), ORef(IfaceT, 0),
      OStruct(LongT, <<7, 8>>), ORef(IfaceT, 0), ORef(IfaceT, 0),
      OSlice(SliceT(Uint8T), <<10, 11, 12>>),
      OInt(Uint8T, 1), OInt(Uint8T, 2), OInt(Uint8T, 3)>>
        \o TAt(13, 3, 4)

\* SA{t, T{x, y}} at location b, t being nil or &T{1, 2}
SAAt(b, hasT, x, y) ==
    <<OStruct(SAT, <<b + 1, b + 2>>), ORef(PtrT(TT), IF hasT THEN b + 5 ELSE 0)>>
        \o TAt(b + 2, x, y) \o TAt(b + 5, 1, 2)

\* []SA{SA{}, SA{&T{1, 2}, T{3, 4}}}
SliceOfSA == <<OSlice(SliceT(SAT), <<2, 10>>)>> \o SAAt(2, FALSE, 0, 0) \o SAAt(10, TRUE, 3, 4)

\* gosyntax: LongStructTypeName{longFieldName: LongStructTypeName{}, otherLongFieldName: "ab"}
Long ==
    <<OStruct(LongT, <<2, 3>>), ORef(IfaceT, 4), ORef(IfaceT, 7),
      OStruct(LongT, <<5, 6>>), ORef(IfaceT, 0), ORef(IfaceT, 0), OStr(<<97, 98>>)>>

\* H{f: func(int) {}, p: unsafe.Pointer(0x10)}
Handles == <<OStruct(StructT("H"), <<2, 3>>), OFunc, OInt(UPtrT, 16)>>

\* the object graphs a Format call is run on
Graphs ==
    {Graph(<<>>, 0, FALSE), Graph(<<OInt(IntT, 1)>>, 1, FALSE),
     Graph(<<OStr(<<97>>)>>, 1, FALSE),
     Graph(SelfA, 1, FALSE), Graph(SharedSeq, 1, FALSE),
     Graph(MapSelf, 1, FALSE), Graph(SliceSelf, 1, FALSE), Graph(Mixed, 1, FALSE),
     Graph(<<ONilMap(MapII)>>, 1, FALSE), Graph(<<ONilSlice(SliceT(IntT))>>, 1, FALSE),
     Graph(MapStrings, 1, FALSE), Graph(MapStringers, 1, FALSE),
     Graph(MapBytes, 1, FALSE), Graph(MapOfT, 1, FALSE),
     Graph(SliceOfSlices, 1, FALSE), Graph(Ifaces, 1, FALSE),
     Graph(SliceOfSA, 1, FALSE), Graph(Long, 1, FALSE), Graph(Handles, 1, FALSE),
     Graph(<<OStruct(SymbolT, <<2>>), OInt(IntT, 1)>>, 1, FALSE)}
    \cup {Graph(RCycle(L), 1, FALSE) : L \in 1..MaxCycle}
    \cup {Graph(ICycle(L), 1, FALSE) : L \in 1..MaxCycle}
    \cup {Graph(Chain(K), 1, FALSE) : K \in 2..MaxChain}
    \cup {Graph(MapInts(n), 1, FALSE) : n \in 0..2}
    \cup {Graph(Bytes(b), 1, FALSE) : b \in ByteTexts}
    \cup {Graph(TAt(1, x, y), 1, lz) : x \in 0..1, y \in 0..1, lz \in BOOLEAN}
    \cup {Graph(SAAt(1, h, x, 0), 1, lz) : h \in BOOLEAN, x \in 0..1, lz \in BOOLEAN}

---------------------------------------------------------------------------
(* reflect.Value helpers *)

TypeOf(o) == heap[o].type
Kind(o) == IF o = 0 THEN "invalid" ELSE TypeOf(o).kind
Elem(o) == heap[o].kids[1]

isNil(o) ==
    CASE Kind(o) = "interface" -> heap[o].isnil
      [] Kind(o) \in {"array", "slice"} -> Kind(o) = "slice" /\ heap[o].isnil
      [] Kind(o) = "ptr" -> heap[o].isnil
      [] Kind(o) = "invalid" -> TRUE
      [] OTHER -> FALSE

RECURSIVE Nonzero(_)
\* whether the value at o differs from the zero value of its type
Nonzero(o) ==
    CASE Kind(o) \in {"int", "uint", "uint8", "unsafeptr"} -> heap[o].val # 0
      [] Kind(o) = "string" -> Len(heap[o].str) # 0
      [] Kind(o) = "struct" ->
            \E i \in 1..Len(heap[o].kids) : Nonzero(heap[o].kids[i])
      [] Kind(o) \in {"map", "interface", "slice", "ptr"} -> ~heap[o].isnil
      [] OTHER -> TRUE

\* getField: the i-th field, unwrapped when it is a non-nil interface
getField(o, i) ==
    LET f == heap[o].kids[i]
    IN  IF Kind(f) = "interface" /\ ~heap[f].isnil THEN Elem(f) ELSE f

\* v.Bytes() of a byte slice
BytesOf(o) == [k \in 1..Len(heap[o].kids) |-> heap[heap[o].kids[k]].val]

---------------------------------------------------------------------------
(* Key orderer *)

HasStringMethod(t) == t = PtrT(StringerT)

\* "<int Value>", "<uint Value>": reflect's String() of a Value that is no string
IntValueText == <<60, 105, 110, 116, 32, 86, 97, 108, 117, 101, 62>>
UintValueText == <<60, 117>> \o Tail(IntValueText)

stringValue(o) ==
    IF HasStringMethod(TypeOf(o)) THEN ItoaBytes(heap[heap[Elem(o)].kids[1]].val)
    ELSE CASE Kind(o) = "string" -> heap[o].str
           [] Kind(o) = "uint" -> UintValueText
           [] Kind(o) = "int" -> IntValueText

Less(a, b) == LexLess(stringValue(a), stringValue(b))

RECURSIVE Sink(_, _)
\* the inner loop of insertion sort: move the element at j down while it is Less
Sink(s, j) ==
    IF j > 1 /\ Less(s[j], s[j - 1])
    THEN Sink([s EXCEPT ![j] = s[j - 1], ![j - 1] = s[j]], j - 1)
    ELSE s

RECURSIVE SortFrom(_, _)
\* sort.Sort on fewer than 12 elements: insertion sort from position i on
SortFrom(s, i) == IF i > Len(s) THEN s ELSE SortFrom(Sink(s, i), i + 1)

\* the keys of map o, as reflect's MapKeys may enumerate them
MapKeys(o) ==
    LET n == Len(heap[o].kids) \div 2
        keys == {heap[o].kids[2 * k - 1] : k \in 1..n}
    IN  {s \in [1..n -> keys] : \A a, b \in 1..n : a # b => s[a] # s[b]}

MapIndex(o, k) ==
    heap[o].kids[1 + CHOOSE j \in 1..Len(heap[o].kids) : j % 2 = 1 /\ heap[o].kids[j] = k]

---------------------------------------------------------------------------
(* printer *)

ModelPaths ==
    {"gitlab.nethead.at/symflower/symflower/model/ast",
     "gitlab.nethead.at/symflower/symflower/model/errors"}

RECURSIVE writeType(_)
\* the writes of printer.writeType (array types are not rendered by the model)
writeType(t) ==
    CASE t.kind = "chan" -> <<"chan ">> \o writeType(t.elem)
      [] t.kind = "map" -> <<"map[">> \o writeType(t.key) \o <<"]">> \o writeType(t.elem)
      [] t.kind = "ptr" -> <<"*">> \o writeType(t.elem)
      [] t.kind = "slice" -> <<"[]">> \o writeType(t.elem)
      [] OTHER ->
            (IF PkgPath(t) \in ModelPaths THEN <<"model">> ELSE <<>>) \o <<TypeString(t)>>

\* the writes of printer.printInline, x formatted with %#v
printInline(t, x, showType) ==
    IF showType THEN writeType(t) \o <<"(" \o x \o ")">> ELSE <<x>>

TypePrefix(t, showType) == IF showType THEN writeType(t) ELSE <<>>

Frame(o, showType, addr, depth) ==
    [obj |-> o, showType |-> showType, addr |-> addr, depth |-> depth,
     pc |-> "call", i |-> 0, expand |-> FALSE, order |-> <<>>]

Top == stack[Len(stack)]
Running == status = "running" /\ Len(stack) > 0
Calling(kinds) == Running /\ Top.pc = "call" /\ ~isNil(Top.obj) /\ Kind(Top.obj) \in kinds

Write(ws) == out' = out \o ws

\* the innermost printValue returns
Return ==
    /\ stack' = SubSeq(stack, 1, Len(stack) - 1)
    /\ status' = status

\* the innermost invocation moves to top and calls printValue on child
Call(top, child) ==
    IF Len(stack) >= StackLimit
    THEN status' = "overflow" /\ stack' = stack
    ELSE status' = status /\ stack' = Append([stack EXCEPT ![Len(stack)] = top], child)

\* the innermost invocation moves to top
Step(top) ==
    /\ stack' = [stack EXCEPT ![Len(stack)] = top]
    /\ status' = status

\* the separator written after entry i of n
Separator(expand, i, n) ==
    IF expand THEN <<",\n">> ELSE IF i < n THEN <<", ">> ELSE <<>>

\* the test of formatter.go:246 on the depth vd stored for the value (-1: none)
IsCyclic_NoThreshold(vd, depth) == vd >= 0 /\ vd < depth

IsCyclic(vd, depth) == vd >= 0 /\ vd < depth /\ depth > CycleThreshold

\* formatter.go:250
Visit_KeepFirst(vis, key, depth) ==
    IF key \in DOMAIN vis THEN vis
    ELSE [k \in DOMAIN vis \cup {key} |-> IF k = key THEN depth ELSE vis[k]]

Visit(vis, key, depth) ==
    [k \in DOMAIN vis \cup {key} |-> IF k = key THEN depth ELSE vis[k]]

VisitKey(o) == <<o, TypeString(TypeOf(o))>>
StoredDepth(o) == IF VisitKey(o) \in DOMAIN visited THEN visited[VisitKey(o)] ELSE -1

---------------------------------------------------------------------------
(* Format and printValue *)

Init ==
    /\ \E g \in Graphs : heap = g.heap /\ root = g.root /\ lazy = g.lazy
    /\ status = "init"
    /\ stack = <<>>
    /\ visited = <<>>
    /\ out = <<>>
    /\ query = IntT
    /\ answer = "none"

\* Format: a fresh printer, then p.printValue(fo.v, true, fo.quote)
Format ==
    /\ status = "init"
    /\ status' = "running"
    /\ stack' = <<Frame(root, TRUE, FALSE, 0)>>
    /\ visited' = <<>>
    /\ UNCHANGED <<query, answer, heap, root, lazy, out>>

\* Format: the outermost printValue has returned; w.Flush()
Flush ==
    /\ status = "running"
    /\ stack = <<>>
    /\ status' = "done"
    /\ UNCHANGED <<query, answer, heap, root, lazy, stack, visited, out>>

\* formatter.go:168-172
PrintNil ==
    /\ Running
    /\ Top.pc = "call"
    /\ isNil(Top.obj)
    /\ Write(<<"nil">>)
    /\ Return
    /\ UNCHANGED <<query, answer, heap, root, lazy, visited>>

\* formatter.go:189-192, 378-379
PrintNumber ==
    /\ Calling({"int", "uint", "uint8", "unsafeptr"})
    /\ LET v == Top.obj
           x == IF Kind(v) = "int" THEN Decimal(heap[v].val) ELSE GoUnsigned(heap[v].val)
       IN  Write(printInline(TypeOf(v), x, Top.showType))
    /\ Return
    /\ UNCHANGED <<query, answer, heap, root, lazy, visited>>

\* formatter.go:197-198; every caller passes quote = true
PrintString ==
    /\ Calling({"string"})
    /\ Write(<<Quote(heap[Top.obj].str)>>)
    /\ Return
    /\ UNCHANGED <<query, answer, heap, root, lazy, visited>>

\* formatter.go:375-377
PrintFunc ==
    /\ Calling({"func"})
    /\ Write(<<TypeString(TypeOf(Top.obj)), " {...}">>)
    /\ Return
    /\ UNCHANGED <<query, answer, heap, root, lazy, visited>>

\* formatter.go:200-204
MapNil ==
    /\ Calling({"map"})
    /\ heap[Top.obj].isnil
    /\ Write(<<"nil">>)
    /\ Return
    /\ UNCHANGED <<query, answer, heap, root, lazy, visited>>

\* formatter.go:205-218
MapOpen ==
    /\ Calling({"map"})
    /\ ~heap[Top.obj].isnil
    /\ LET v == Top.obj
           t == TypeOf(v)
           expand == ~canInline(t)
       IN  IF Nonzero(v)
           THEN /\ Write(TypePrefix(t, Top.showType) \o <<"{">>
                         \o (IF expand THEN <<"\n">> ELSE <<>>))
                /\ \E keys \in MapKeys(v) :
                      Step([Top EXCEPT !.pc = "next", !.i = 1, !.expand = expand,
                                       !.order = SortFrom(keys, 2)])
           ELSE /\ Write(TypePrefix(t, Top.showType) \o <<"{", "}">>)
                /\ Return
    /\ UNCHANGED <<query, answer, heap, root, lazy, visited>>

\* formatter.go:219-223
MapKey ==
    /\ Running
    /\ Kind(Top.obj) = "map"
    /\ Top.pc = "next"
    /\ Top.i <= Len(Top.order)
    /\ Call([Top EXCEPT !.pc = "colon"], Frame(Top.order[Top.i], FALSE, FALSE, Top.depth))
    /\ UNCHANGED <<query, answer, heap, root, lazy, visited, out>>

\* formatter.go:224-229
MapValue ==
    /\ Running
    /\ Top.pc = "colon"
    /\ Write(<<":">> \o (IF Top.expand THEN <<"\t">> ELSE <<>>))
    /\ Call([Top EXCEPT !.pc = "after"],
            Frame(MapIndex(Top.obj, Top.order[Top.i]),
                  TypeOf(Top.obj).elem.kind = "interface", FALSE, Top.depth))
    /\ UNCHANGED <<query, answer, heap, root, lazy, visited>>

\* formatter.go:230-234
MapSep ==
    /\ Running
    /\ Kind(Top.obj) = "map"
    /\ Top.pc = "after"
    /\ Write(Separator(Top.expand, Top.i, Len(Top.order)))
    /\ Step([Top EXCEPT !.pc = "next", !.i = Top.i + 1])
    /\ UNCHANGED <<query, answer, heap, root, lazy, visited>>

\* formatter.go:236-240
MapClose ==
    /\ Running
    /\ Kind(Top.obj) = "map"
    /\ Top.pc = "next"
    /\ Top.i > Len(Top.order)
    /\ Write(<<"}">>)
    /\ Return
    /\ UNCHANGED <<query, answer, heap, root, lazy, visited>>

\* formatter.go:243-249
StructCyclic ==
    /\ Calling({"struct"})
    /\ Top.addr
    /\ IsCyclic(StoredDepth(Top.obj), Top.depth)
    /\ Write(<<TypeString(TypeOf(Top.obj)) \o "{(CYCLIC REFERENCE)}">>)
    /\ Return
    /\ UNCHANGED <<query, answer, heap, root, lazy, visited>>

\* formatter.go:243-263, 288
StructOpen ==
    /\ Calling({"struct"})
    /\ ~(Top.addr /\ IsCyclic(StoredDepth(Top.obj), Top.depth))
    /\ visited' = IF Top.addr THEN Visit(visited, VisitKey(Top.obj), Top.depth)
                  ELSE visited
    /\ LET v == Top.obj
           t == TypeOf(v)
           expand == ~canInline(t)
       IN  IF Nonzero(v)
           THEN /\ Write(TypePrefix(t, Top.showType) \o <<"{">>
                         \o (IF expand THEN <<"\n">> ELSE <<>>))
                /\ Step([Top EXCEPT !.pc = "next", !.i = 1, !.expand = expand])
           ELSE /\ Write(TypePrefix(t, Top.showType) \o <<"{", "}">>)
                /\ Return
    /\ UNCHANGED <<query, answer, heap, root, lazy>>

\* formatter.go:266-268
StructSkip ==
    /\ Running
    /\ Kind(Top.obj) = "struct"
    /\ Top.pc = "next"
    /\ Top.i <= NumField(TypeOf(Top.obj))
    /\ lazy /\ ~Nonzero(heap[Top.obj].kids[Top.i])
    /\ Step([Top EXCEPT !.i = Top.i + 1])
    /\ UNCHANGED <<query, answer, heap, root, lazy, visited, out>>

\* formatter.go:269-277
StructField ==
    /\ Running
    /\ Kind(Top.obj) = "struct"
    /\ Top.pc = "next"
    /\ Top.i <= NumField(TypeOf(Top.obj))
    /\ ~(lazy /\ ~Nonzero(heap[Top.obj].kids[Top.i]))
    /\ LET v == Top.obj
           f == Fields(TypeOf(v))[Top.i]
           unwrapped == getField(v, Top.i) # heap[v].kids[Top.i]
       IN  /\ Write(<<f.name, ":">> \o (IF Top.expand THEN <<"\t">> ELSE <<>>))
           /\ Call([Top EXCEPT !.pc = "after"],
                   Frame(getField(v, Top.i), labelType(f.type),
                         Top.addr /\ ~unwrapped, Top.depth))
    /\ UNCHANGED <<query, answer, heap, root, lazy, visited>>

\* formatter.go:278-282
StructSep ==
    /\ Running
    /\ Kind(Top.obj) = "struct"
    /\ Top.pc = "after"
    /\ Write(Separator(Top.expand, Top.i, NumField(TypeOf(Top.obj))))
    /\ Step([Top EXCEPT !.pc = "next", !.i = Top.i + 1])
    /\ UNCHANGED <<query, answer, heap, root, lazy, visited>>

\* formatter.go:284-288
StructClose ==
    /\ Running
    /\ Kind(Top.obj) = "struct"
    /\ Top.pc = "next"
    /\ Top.i > NumField(TypeOf(Top.obj))
    /\ Write(<<"}">>)
    /\ Return
    /\ UNCHANGED <<query, answer, heap, root, lazy, visited>>

\* formatter.go:293-296
IfaceElem ==
    /\ Calling({"interface"})
    /\ Call([Top EXCEPT !.pc = "ret"],
            Frame(Elem(Top.obj), Top.showType, FALSE, Top.depth + 1))
    /\ UNCHANGED <<query, answer, heap, root, lazy, visited, out>>

\* formatter.go:302-320
SliceText ==
    /\ Calling({"slice"})
    /\ TypeOf(Top.obj).elem.kind = "uint8"
    /\ utf8Valid(BytesOf(Top.obj))
    /\ Write(TypePrefix(TypeOf(Top.obj), Top.showType)
             \o <<"(", Quote(BytesOf(Top.obj)), ")">>)
    /\ Return
    /\ UNCHANGED <<query, answer, heap, root, lazy, visited>>

\* formatter.go:302-328
SliceOpen ==
    /\ Calling({"slice"})
    /\ ~(TypeOf(Top.obj).elem.kind = "uint8" /\ utf8Valid(BytesOf(Top.obj)))
    /\ LET t == TypeOf(Top.obj)
           expand == ~canInline(t)
       IN  /\ Write(TypePrefix(t, Top.showType) \o <<"{">>
                    \o (IF expand THEN <<"\n">> ELSE <<>>))
           /\ Step([Top EXCEPT !.pc = "next", !.i = 1, !.expand = expand])
    /\ UNCHANGED <<query, answer, heap, root, lazy, visited>>

\* formatter.go:329-331
SliceElem ==
    /\ Running
    /\ Kind(Top.obj) = "slice"
    /\ Top.pc = "next"
    /\ Top.i <= Len(heap[Top.obj].kids)
    /\ Call([Top EXCEPT !.pc = "after"],
            Frame(heap[Top.obj].kids[Top.i],
                  TypeOf(Top.obj).elem.kind = "interface", TRUE, Top.depth))
    /\ UNCHANGED <<query, answer, heap, root, lazy, visited, out>>

\* formatter.go:332-336
SliceSep ==
    /\ Running
    /\ Kind(Top.obj) = "slice"
    /\ Top.pc = "after"
    /\ Write(Separator(Top.expand, Top.i, Len(heap[Top.obj].kids)))
    /\ Step([Top EXCEPT !.pc = "next", !.i = Top.i + 1])
    /\ UNCHANGED <<query, answer, heap, root, lazy, visited>>

\* formatter.go:338-347
SliceClose ==
    /\ Running
    /\ Kind(Top.obj) = "slice"
    /\ Top.pc = "next"
    /\ Top.i > Len(heap[Top.obj].kids)
    /\ Write(<<"}">>
             \o (IF TypeOf(Top.obj).elem.kind = "uint8"
                 THEN <<" ", "/* ", Quote(BytesOf(Top.obj)), " */">>
                 ELSE <<>>))
    /\ Return
    /\ UNCHANGED <<query, answer, heap, root, lazy, visited>>

\* formatter.go:349, 360-363
PtrElem ==
    /\ Calling({"ptr"})
    /\ Write(<<"&">>)
    /\ Call([Top EXCEPT !.pc = "ret"], Frame(Elem(Top.obj), TRUE, TRUE, Top.depth + 1))
    /\ UNCHANGED <<query, answer, heap, root, lazy, visited>>

\* the printValue called on the target of a pointer or interface has returned
Unwind ==
    /\ Running
    /\ Top.pc = "ret"
    /\ Return
    /\ UNCHANGED <<query, answer, heap, root, lazy, visited, out>>

Next ==
    \/ Format
    \/ Flush
    \/ PrintNil
    \/ PrintNumber
    \/ PrintString
    \/ PrintFunc
    \/ MapNil
    \/ MapOpen
    \/ MapKey
    \/ MapValue
    \/ MapSep
    \/ MapClose
    \/ StructCyclic
    \/ StructOpen
    \/ StructSkip
    \/ StructField
    \/ StructSep
    \/ StructClose
    \/ IfaceElem
    \/ SliceText
    \/ SliceOpen
    \/ SliceElem
    \/ SliceSep
    \/ SliceClose
    \/ PtrElem
    \/ Unwind

Spec == Init /\ [][Next]_vars

Text == Concat(out)
Done == status = "done"

---------------------------------------------------------------------------
(* The layout planner on its own: canInline and canExpand as pure functions *)

\* the types the planner is asked about: the child types, every sequence and
\* mapping of one, every record of two, and the denylisted record
PlannerTypes ==
    {ChildTypes[i] : i \in 1..Len(ChildTypes)}
    \cup {SliceT(ChildTypes[i]) : i \in 1..Len(ChildTypes)}
    \cup {ArrayT(ChildTypes[i]) : i \in 1..Len(ChildTypes)}
    \cup {MapT(StringT, ChildTypes[i]) : i \in 1..Len(ChildTypes)}
    \cup {StructT(PairName(p[1], p[2])) : p \in PairIdx}
    \cup {SymbolT, SAT, LongT}

InitTypes ==
    /\ query \in PlannerTypes
    /\ answer = "none"
    /\ heap = <<>> /\ root = 0 /\ lazy = FALSE
    /\ status = "idle" /\ stack = <<>> /\ visited = <<>> /\ out = <<>>

AskCanInline ==
    /\ status = "idle"
    /\ answer = "none"
    /\ answer' = IF canInline(query) THEN "inline" ELSE "expand"
    /\ UNCHANGED <<query, heap, root, lazy, status, stack, visited, out>>

AskCanExpand ==
    /\ status = "idle"
    /\ answer = "none"
    /\ answer' = IF canExpand(query) THEN "expandable" ELSE "plain"
    /\ UNCHANGED <<query, heap, root, lazy, status, stack, visited, out>>

NextTypes == AskCanInline \/ AskCanExpand

SpecTypes == InitTypes /\ [][NextTypes]_vars

---------------------------------------------------------------------------
(* Shapes of object graphs *)

Kids(o) == IF o = 0 THEN {} ELSE {heap[o].kids[i] : i \in 1..Len(heap[o].kids)}

\* a pointer that holds an (addressable) record
PtrToStruct(o) == Kind(o) = "ptr" /\ ~heap[o].isnil /\ Kind(Elem(o)) = "struct"

\* the edges of the graph other than those from a pointer to its record
KidsUnguarded(o) == IF PtrToStruct(o) THEN {} ELSE Kids(o)

RECURSIVE Reach(_, _)
\* the locations reachable from those of S; guarded edges count when all is set
Reach(S, all) ==
    LET N == S \cup UNION {IF all THEN Kids(o) ELSE KidsUnguarded(o) : o \in S}
    IN  IF N = S THEN S ELSE Reach(N, all)

Reachable == Reach({root} \ {0}, TRUE)

\* the graph holds no cycle at all
Acyclic == \A o \in Reachable : o \notin Reach(Kids(o), TRUE)

\* the records on a cycle that passes through a pointer to them
CycleRecords ==
    {Elem(p) : p \in {q \in Reachable : PtrToStruct(q) /\ q \in Reach({Elem(q)}, TRUE)}}

\* every cycle of the graph passes through a pointer to a record
AllCyclesGuarded == \A o \in Reachable : o \notin Reach(KidsUnguarded(o), FALSE)

Marker(t) == TypeString(t) \o "{(CYCLIC REFERENCE)}"
MarkerTexts == {Marker(t) : t \in {TT, AT, RT, IT, WT, ST, NT, SAT, LongT, StringerT}}
Written == {out[i] : i \in 1..Len(out)}
HasMarker == Written \cap MarkerTexts # {}

\* what the step at hand wrote
NewOut == SubSeq(out', Len(out) + 1, Len(out'))
\* the step at hand is the entry of printValue on a value of one of these kinds
Entering(kinds) == Running /\ Top.pc = "call" /\ Kind(Top.obj) \in kinds /\ out' # out

---------------------------------------------------------------------------
(* C1, C2: termination on cyclic graphs *)

\* C1: whenever the graph holds a cycle through a pointer to a record, the
\* Format call completes (the stack is never exhausted) and its output holds
\* the marker of a record on such a cycle.
C1_PointerCycleRendered ==
    /\ status = "overflow" => CycleRecords = {}
    /\ Done /\ CycleRecords # {} =>
          \E o \in CycleRecords : Marker(TypeOf(o)) \in Written

\* The part of C1 the code keeps: when every cycle of the graph passes through
\* a pointer to a record, the call completes, and with the marker if there is
\* such a cycle.
PointerCyclesCut ==
    /\ status = "overflow" => ~AllCyclesGuarded
    /\ Done /\ AllCyclesGuarded /\ CycleRecords # {} =>
          \E o \in CycleRecords : Marker(TypeOf(o)) \in Written

\* a ring of MaxCycle records was rendered to completion with its marker
PointerCycleDone == Done /\ heap = RCycle(MaxCycle) /\ Marker(RT) \in Written

\* C2: a Format call terminates on every finite graph: printValue never
\* recurses until the stack is exhausted.
C2_NeverRecursesWithoutBound == status # "overflow"

---------------------------------------------------------------------------
(* C3: shared records *)

\* C3 as stated: no marker is ever written while rendering a graph without
\* cycles, however its records are shared.
C3_NoMarkerWithoutCycle == HasMarker => ~Acyclic

\* C3 as amended: a marker is written only for a record entered at a depth
\* above the threshold whose stored depth is smaller, so a record shared at
\* depth 40 or less is never marked (the two elements of a top-level sequence
\* are entered at depth 1).
C3_MarkerOnlyBeyondThreshold ==
    [][(Entering({"struct"}) /\ NewOut[1] \in MarkerTexts) =>
           /\ Top.depth > CycleThreshold
           /\ StoredDepth(Top.obj) >= 0
           /\ StoredDepth(Top.obj) < Top.depth]_vars

\* both references of []*A{p, p} were rendered, neither as a cycle
C3_SharedRendered ==
    /\ Done /\ heap = SharedSeq /\ Acyclic /\ ~HasMarker
    /\ Text = "[]*pretty.A{\n&pretty.A{},\n&pretty.A{},\n}"

---------------------------------------------------------------------------
(* C4: the order of mapping entries *)

\* the text of a key by which C4 orders: its String() result, else its natural text
KeyText(o) ==
    IF HasStringMethod(TypeOf(o)) THEN stringValue(o)
    ELSE IF Kind(o) = "string" THEN heap[o].str ELSE ItoaBytes(heap[o].val)

\* C4: the entries of a mapping are emitted in ascending lexicographic order of
\* the keys' text, whatever order the keys were enumerated in.
C4_KeysAscending ==
    \A n \in 1..Len(stack) :
        LET f == stack[n]
        IN  (Kind(f.obj) = "map" /\ f.pc # "call") =>
                \A i, j \in 1..Len(f.order) :
                    i < j => ~LexLess(KeyText(f.order[j]), KeyText(f.order[i]))

---------------------------------------------------------------------------
(* C5: nil sequences and mappings *)

\* C5: printValue on a nil sequence writes the type name and "(nil)" when
\* showType is set and "nil" when it is not; on a nil mapping it writes "nil".
C5_NilRendering ==
    [][(Entering({"slice", "map"}) /\ heap[Top.obj].isnil) =>
           Concat(NewOut) =
               IF Kind(Top.obj) = "slice" /\ Top.showType
               THEN TypeString(TypeOf(Top.obj)) \o "(nil)"
               ELSE "nil"]_vars

---------------------------------------------------------------------------
(* C6: lazy rendering of records *)

RECURSIVE JoinInline(_)
JoinInline(es) ==
    IF Len(es) = 0 THEN ""
    ELSE IF Len(es) = 1 THEN es[1]
    ELSE es[1] \o ", " \o JoinInline(Tail(es))

\* the name:value entries of the fields of T{x, y} at o, zero fields left out or not
EntriesOfT(o, omitZero) ==
    LET x == heap[heap[o].kids[1]].val
        y == heap[heap[o].kids[2]].val
    IN  (IF omitZero /\ x = 0 THEN <<>> ELSE <<"x:" \o Decimal(x)>>)
            \o (IF omitZero /\ y = 0 THEN <<>> ELSE <<"y:" \o Decimal(y)>>)

\* C6: LazyFormatter renders a non-zero record as the entries of its non-zero
\* fields alone, joined as an ordinary rendering joins them; Formatter renders
\* every field.
C6_LazyOmitsZeroFields ==
    (Done /\ root # 0 /\ TypeOf(root) = TT /\ Nonzero(root)) =>
        Text = "pretty.T{" \o JoinInline(EntriesOfT(root, lazy)) \o "}"

---------------------------------------------------------------------------
(* C7, C10: the layout *)

\* the kinds of child that make the parent expand
ExpandingKinds == {"map", "struct", "interface", "array", "slice", "ptr"}

\* the immediate children the planner looks at
ChildrenOf(t) ==
    CASE t.kind = "struct" -> {Fields(t)[i].type : i \in 1..NumField(t)}
      [] t.kind \in {"map", "slice", "array"} -> {t.elem}
      [] OTHER -> {}

Denylisted(t) == t = SymbolT

\* the layout the shape of a composite type asks for
ShapeExpands(t) == Denylisted(t) \/ \E c \in ChildrenOf(t) : c.kind \in ExpandingKinds

\* the step at hand wrote an opening brace, and a newline right after it
OpensBrace == Entering({"struct", "map", "slice"}) /\ \E i \in 1..Len(NewOut) : NewOut[i] = "{"
NewlineAfterBrace == NewOut[Len(NewOut)] = "\n"

\* C7 as stated: whether a newline follows the opening brace of a record,
\* mapping or sequence depends on its type alone.  (Non-zero values of a type
\* follow its shape, so the choice is by type alone only if all values do.)
C7_LayoutByTypeAlone ==
    [][OpensBrace => (NewlineAfterBrace <=> ShapeExpands(TypeOf(Top.obj)))]_vars

\* C7 as amended: the choice depends on the type alone, except that a record
\* equal to its zero value is closed at once, with no newline, whatever its type.
C7_LayoutByTypeUnlessZero ==
    [][OpensBrace =>
           (NewlineAfterBrace <=>
               /\ ShapeExpands(TypeOf(Top.obj))
               /\ Kind(Top.obj) = "struct" => Nonzero(Top.obj))]_vars

\* []SA{SA{}, SA{&T{1, 2}, T{3, 4}}}: the zero SA inline, the other expanded
C7_ZeroInlineNonzeroExpanded ==
    /\ Done /\ heap = SliceOfSA
    /\ Text = "[]pretty.SA{\n{},\n{\nt:\t&pretty.T{x:1, y:2},\nv:\tpretty.T{x:3, y:4},\n},\n}"

\* what C10 calls expandable: a sequence only if its elements are, and
\* functions and raw pointers too
RECURSIVE ClaimedExpandable(_)
ClaimedExpandable(t) ==
    \/ t.kind \in {"struct", "map", "interface", "ptr", "func", "unsafeptr"}
    \/ t.kind \in {"array", "slice"} /\ ClaimedExpandable(t.elem)

Composite(t) == t.kind \in {"struct", "map", "slice", "array"} /\ ~Denylisted(t)

\* C10 as stated: a composite type is inlinable exactly when no immediate child
\* is a record, mapping, union, reference, function, raw pointer or sequence of
\* expandable elements.
C10_InlineUnlessClaimedExpandable ==
    (Composite(query) /\ answer \in {"inline", "expand"}) =>
        (answer = "inline" <=> \A c \in ChildrenOf(query) : ~ClaimedExpandable(c))

\* C10 as amended: a composite type is inlinable exactly when no immediate
\* child (field type, element type) is a record, mapping, union, reference or
\* sequence of any elements; function and raw pointer children do not count.
C10_InlineUnlessExpandingChild ==
    (Composite(query) /\ answer \in {"inline", "expand"}) =>
        (answer = "inline" <=> \A c \in ChildrenOf(query) : c.kind \notin ExpandingKinds)

\* the planner was asked about [][]int, whose child []int has plain elements,
\* and answered that it expands
C10_SequenceChildExpands ==
    /\ query = SliceT(SliceT(IntT))
    /\ answer = "expand"

---------------------------------------------------------------------------
(* C8: byte sequences *)

RECURSIVE HexList(_)
HexList(b) ==
    IF Len(b) = 0 THEN ""
    ELSE IF Len(b) = 1 THEN GoUnsigned(b[1])
    ELSE GoUnsigned(b[1]) \o ", " \o HexList(Tail(b))

\* C8: a non-nil byte sequence that is no valid text (such as 1, 2, 3) renders
\* as hex elements in braces, an empty one as {}, and one that is valid text as
\* a quoted literal followed by a comment.
C8_ByteSequences ==
    (Done /\ root # 0 /\ TypeOf(root) = SliceT(Uint8T)) =>
        LET b == BytesOf(root)
        IN  IF b = <<1, 2, 3>> \/ b = <<>> \/ ~utf8Valid(b)
            THEN Text = "[]uint8{" \o HexList(b) \o "}"
            ELSE Quote(b) \in Written /\ "/* " \in Written

---------------------------------------------------------------------------
(* C9: the visited map *)

\* C9 as stated: the depth stored for a key is the depth of its first entry;
\* it never changes, and keys are never removed.
C9_FirstDepthKept ==
    [][\A k \in DOMAIN visited : k \in DOMAIN visited' /\ visited'[k] = visited[k]]_vars

\* the step at hand enters an addressable record and does not report a cycle
EntersRecord ==
    /\ Running /\ Top.pc = "call" /\ Kind(Top.obj) = "struct" /\ Top.addr
    /\ (out' = out \/ NewOut[1] \notin MarkerTexts)

\* C9 as amended: the depth stored for a key is the depth of the latest entry
\* of that record that was not reported as a cycle; only such an entry changes
\* the map, and keys are never removed.
C9_LatestDepthStored ==
    [][/\ DOMAIN visited \subseteq DOMAIN visited'
       /\ EntersRecord =>
             /\ VisitKey(Top.obj) \in DOMAIN visited'
             /\ visited'[VisitKey(Top.obj)] = Top.depth
       /\ \A k \in DOMAIN visited' :
             (k \notin DOMAIN visited \/ visited'[k] # visited[k]) =>
                 EntersRecord /\ k = VisitKey(Top.obj)]_vars

\* the record of v := &A{}; v.A = v, first entered at depth 1, is stored at the threshold
C9_DepthOverwritten ==
    /\ heap = SelfA
    /\ VisitKey(2) \in DOMAIN visited
    /\ visited[VisitKey(2)] = CycleThreshold

====
